---------------------------- MODULE Spec2Model ----------------------------
(***************************************************************************)
(* State-machine model of the orbit-determination pipeline driver mainf    *)
(* (testcases/Alexandros code/final_init.py) and of the plotting helpers   *)
(* of orbitdeterminator/doppler/utils/utils_vis.py, together with the      *)
(* collaborators they call (smoother, initial orbit determination, Kalman  *)
(* refiner, propagator, batch estimator) as the design document describes  *)
(* them.                                                                   *)
(*                                                                         *)
(* Numbers: positions are integers (metres or kilometres as in the source) *)
(* and divisions are integer divisions; the catalogue of input tracks uses *)
(* multiples of Unit so that every smoothing division is exact.  Epochs    *)
(* and step sizes of the propagator are counted in ticks of 1/FloorDen     *)
(* second.                                                                 *)
(***************************************************************************)
EXTENDS Integers, Sequences, FiniteSets, TLC

\* ------------------------------------------------------------------------
\* Bounds of the model
\* ------------------------------------------------------------------------

\* number of input files of the catalogue (track lengths 5 .. 4 + NumFiles)
NumFiles == 3

\* largest window length handed to mainf
MaxWindow == 8

\* ------------------------------------------------------------------------
\* Generic helpers
\* ------------------------------------------------------------------------

\* an array local of a function that has not been assigned yet
NoArray == [fn |-> "unset"]

\* a track local that has not been assigned yet
NoTrack == << >>

Abs(a) == IF a < 0 THEN -a ELSE a

RECURSIVE SumTo(_, _, _)
\* F[lo] + F[lo+1] + ... + F[hi]
SumTo(F, lo, hi) == IF lo > hi THEN 0 ELSE F[lo] + SumTo(F, lo + 1, hi)

\* ------------------------------------------------------------------------
\* read_data.load_data: a catalogue of (Time, x, y, z) tracks
\* ------------------------------------------------------------------------

DataFiles == 1 .. NumFiles

\* every smoothing division (3 * 3 * 3 for the moving averages, 105 for the
\* polynomial fit of windows 5 and 7) is exact on multiples of Unit
Unit == 27 * 105

\* the tracks of the catalogue have 5, 6, 7, ... rows
TrackLen(f) == 4 + f

\* file 1 is a straight line through the origin, the others are curved
load_data(f) ==
    [k \in 1 .. TrackLen(f) |->
        << 10 * k,
           Unit * (k + ((k * k * (f - 1)) % 7)),
           Unit * (2 * k + (f - 1) * (k % 2)),
           Unit * ((f - 1) * (k % 3)) >>]

\* ------------------------------------------------------------------------
\* tripple_moving_average.generate_filtered_data
\* ------------------------------------------------------------------------

\* one pass of a centred moving average of width w over column c; the first
\* and last (w - 1) / 2 rows keep their values
MovingAverage(d, w, c) ==
    LET m == (w - 1) \div 2
        n == Len(d)
    IN  [k \in 1 .. n |->
            IF k <= m \/ k > n - m THEN d[k][c]
            ELSE SumTo([j \in (k - m) .. (k + m) |-> d[j][c]], k - m, k + m) \div w]

AveragePass(d, w) ==
    [k \in 1 .. Len(d) |->
        << d[k][1], MovingAverage(d, w, 2)[k], MovingAverage(d, w, 3)[k],
           MovingAverage(d, w, 4)[k] >>]

\* the moving average applied three times; timestamps and length are kept
generate_filtered_data(d, w) == AveragePass(AveragePass(AveragePass(d, w), w), w)

\* ------------------------------------------------------------------------
\* golay_filter.golay (the Smoother of the design document)
\* ------------------------------------------------------------------------

\* the smallest window the Smoother accepts
MinWindow == 5

\* InvalidWindow: w even, w < 5, or w longer than the track
InvalidWindow(d, w) == w % 2 = 0 \/ w < MinWindow \/ w > Len(d)

\* index k + j mirrored back into 1 .. n
Mirror(idx, n) == IF idx < 1 THEN 2 - idx ELSE IF idx > n THEN 2 * n - idx ELSE idx

\* least-squares cubic fit over the window, evaluated at its centre:
\* weight of offset j is 3(3m^2+3m-1-5j^2) / ((2m+3)(2m+1)(2m-1))
GolayWeight(m, j) == 3 * (3 * m * m + 3 * m - 1 - 5 * j * j)

GolayDenominator(m) == (2 * m + 3) * (2 * m + 1) * (2 * m - 1)

GolayColumn(d, w, c) ==
    LET m == (w - 1) \div 2
        n == Len(d)
    IN  [k \in 1 .. n |->
            SumTo([j \in (-m) .. m |-> GolayWeight(m, j) * d[Mirror(k + j, n)][c]],
                  -m, m) \div GolayDenominator(m)]

\* the smoothed track: same length, same timestamps
golay(d, w) ==
    [k \in 1 .. Len(d) |->
        << d[k][1], GolayColumn(d, w, 2)[k], GolayColumn(d, w, 3)[k],
           GolayColumn(d, w, 4)[k] >>]

\* ------------------------------------------------------------------------
\* orbit_fit.create_kep, orbit_fit.kalman, kep_state.Kep_state, numpy
\* ------------------------------------------------------------------------
\* The numerical results of these collaborators are kept as terms that
\* record the function, its argument and the shape of the array it returns.

Cross(a, b) ==
    << a[3] * b[4] - a[4] * b[3], a[4] * b[2] - a[2] * b[4], a[2] * b[3] - a[3] * b[2] >>

\* DegenerateGeometry: two consecutive positions collinear with the origin
DegenerateGeometry(d) ==
    \E k \in 1 .. (Len(d) - 1) : Cross(d[k], d[k + 1]) = << 0, 0, 0 >>

\* Lambert's solution for every pair of consecutive smoothed positions
create_kep(d) == [fn |-> "create_kep", arg |-> d, shape |-> << Len(d) - 1, 6 >>]

\* the Kalman refinement of the element sets: one row of six elements
kalman(k) == [fn |-> "kalman", arg |-> k, shape |-> << 1, 6 >>]

\* np.transpose of a two-dimensional array
transpose(a) == [a EXCEPT !.shape = << a.shape[2], a.shape[1] >>]

\* Keplerian elements to a state vector (six rows, one column)
Kep_state(k) == [fn |-> "Kep_state", arg |-> k, shape |-> << 6, 1 >>]

\* np.ravel: the same values as a one-dimensional array
ravel(a) == [a EXCEPT !.shape = << a.shape[1] * a.shape[2] >>]

\* a column of np.zeros((6, 20))
ZeroColumn == [fn |-> "zeros", shape |-> << 6 >>]

\* ------------------------------------------------------------------------
\* rkf78.rkf78 (the Propagator of the design document)
\* ------------------------------------------------------------------------

\* ticks per second: the step floor is 1 / FloorDen second
FloorDen == 4

\* the configured cap on the number of steps of one propagation
StepCap == 40

Ticks(seconds) == seconds * FloorDen

\* the largest step (in ticks) whose error estimate meets the tolerance on
\* the trajectory at hand: nothing, 1 s, 32 s, 2048 s
StepProfiles == { 0, Ticks(1), Ticks(32), Ticks(2048) }

Min(a, b) == IF a < b THEN a ELSE b

\* one step of the integration of working state w towards epoch t1, with
\* lim the largest step the error estimate accepts: the step budget and the
\* step floor are checked first, an accepted step advances the epoch and
\* doubles the step, a rejected step halves it
rkf78_step(w, t1, lim) ==
    IF w.steps >= StepCap
    THEN [status |-> "StepBudgetExceeded", w |-> w]
    ELSE IF w.h < 1
    THEN [status |-> "IntegrationDiverged", w |-> w]
    ELSE IF w.h <= lim
    THEN [status |-> "running",
          w |-> [t |-> w.t + Min(w.h, t1 - w.t), h |-> 2 * w.h, steps |-> w.steps + 1]]
    ELSE [status |-> "running",
          w |-> [t |-> w.t, h |-> w.h \div 2, steps |-> w.steps + 1]]

\* the state vector rkf78 returns: the initial state advanced to an epoch
rkf78_state(x0, t0, t) == [fn |-> "rkf78", x0 |-> x0, t0 |-> t0, epoch |-> t, shape |-> << 6, 1 >>]

\* ------------------------------------------------------------------------
\* State
\* ------------------------------------------------------------------------

VARIABLES
    \* mainf: position in the function, arguments, environment
    pc, datafile, window, hmax,
    \* mainf: locals
    my_data, my_data_filt, kep, kep_final, state, keep_state, t_hold,
    ti, tf, x, h, tetol, i, rk, positions, dif, r_abs, v_abs,
    \* mainf: what it printed, what it rendered, what it returned or raised
    stdout, figs, retval, exc,
    \* the calls of the estimation stages, in order, with argument and result
    trace

mainfVars ==
    << pc, datafile, window, hmax, my_data, my_data_filt, kep, kep_final, state,
       keep_state, t_hold, ti, tf, x, h, tetol, i, rk, positions, dif, r_abs,
       v_abs, stdout, figs, retval, exc, trace >>

VARIABLES
    \* batch estimator: phase, ensemble of initial guesses, per-task working
    \* storage, results keyed by candidate index
    bpc, x_0r, work, x_br, x_berr, outcome,
    \* plot_batch_results: locals, scatter calls, return value or exception
    x_berr_norm, norm_mask, bi, artists, bfig, bexc

batchVars == << bpc, x_0r, work, x_br, x_berr, outcome, x_berr_norm, norm_mask,
                bi, artists, bfig, bexc >>

VARIABLES
    \* plotting helpers: the function called, position in it, its arguments
    \* (shape of the array argument, whether a title is given)
    vfn, vpc, varg, vtitle,
    \* plotting helpers: locals, the axes added to the figure, the observers
    \* drawn, return value or exception
    vshape, vi, vpanels, vdrawn, vfig, vexc

visVars == << vfn, vpc, varg, vtitle, vshape, vi, vpanels, vdrawn, vfig, vexc >>

\* the variables mainf does not touch
notMainf == << batchVars, visVars >>

\* the variables the batch estimator and plot_batch_results do not touch
notBatch == << mainfVars, visVars >>

\* the variables the plotting helpers do not touch
notVis == << mainfVars, batchVars >>

Windows == 3 .. MaxWindow

\* range(0, 20): the number of propagations of mainf
NumProp == 20

\* tf = tf + 100: the spacing of the end epochs, in seconds
EpochStep == 100

\* generate_filtered_data(my_data, 3)
AverageWindow == 3

mainfLocalsUnset ==
    /\ my_data = NoTrack /\ my_data_filt = NoTrack
    /\ kep = NoArray /\ kep_final = NoArray /\ state = NoArray
    /\ keep_state = << >> /\ t_hold = << >>
    /\ ti = 0 /\ tf = 0 /\ x = NoArray /\ h = 0 /\ tetol = 0 /\ i = 0
    /\ rk = [t |-> 0, h |-> 0, steps |-> 0]
    /\ positions = << >> /\ dif = << >> /\ r_abs = << >> /\ v_abs = << >>
    /\ stdout = << >> /\ figs = << >> /\ retval = NoArray /\ exc = "none"
    /\ trace = << >>

\* mainf(datafile, window) is called
mainfInit ==
    /\ pc = "load"
    /\ datafile \in DataFiles
    /\ window \in Windows
    /\ hmax \in StepProfiles
    /\ mainfLocalsUnset

\* no try/except in mainf: an exception raised by a call leaves the function
Raise(kind) == pc' = "raised" /\ exc' = kind

Called(stage, input, output) ==
    trace' = Append(trace, [stage |-> stage, input |-> input, output |-> output])

\* line 37
Load ==
    /\ pc = "load"
    /\ my_data' = load_data(datafile)
    /\ Called("load_data", datafile, my_data')
    /\ pc' = "average"
    /\ UNCHANGED << datafile, window, hmax, my_data_filt, kep, kep_final, state,
                    keep_state, t_hold, ti, tf, x, h, tetol, i, rk, positions, dif,
                    r_abs, v_abs, stdout, figs, retval, exc >>
    /\ UNCHANGED notMainf

\* line 38: my_data is overwritten by its moving average
Average ==
    /\ pc = "average"
    /\ my_data' = generate_filtered_data(my_data, AverageWindow)
    /\ Called("generate_filtered_data", my_data, my_data')
    /\ pc' = "golay"
    /\ UNCHANGED << datafile, window, hmax, my_data_filt, kep, kep_final, state,
                    keep_state, t_hold, ti, tf, x, h, tetol, i, rk, positions, dif,
                    r_abs, v_abs, stdout, figs, retval, exc >>
    /\ UNCHANGED notMainf

\* variant of GolayRefused: the refusal is swallowed and the unsmoothed track
\* is used in place of the smoothed one
GolayRefusedIgnored ==
    /\ my_data_filt' = my_data
    /\ pc' = "create_kep"
    /\ UNCHANGED << exc, trace >>

\* line 39, the window is refused
GolayRefused ==
    /\ Raise("InvalidWindow")
    /\ UNCHANGED << my_data_filt, trace >>

\* line 39
Golay ==
    /\ pc = "golay"
    /\ IF InvalidWindow(my_data, window)
       THEN GolayRefused
       ELSE /\ my_data_filt' = golay(my_data, window)
            /\ Called("golay", my_data, my_data_filt')
            /\ pc' = "create_kep"
            /\ UNCHANGED exc
    /\ UNCHANGED << datafile, window, hmax, my_data, kep, kep_final, state,
                    keep_state, t_hold, ti, tf, x, h, tetol, i, rk, positions, dif,
                    r_abs, v_abs, stdout, figs, retval >>
    /\ UNCHANGED notMainf

\* variant of CreateKep: the orbit is fitted to my_data instead of the
\* Savitzky-Golay result
CreateKepUnfiltered ==
    /\ pc = "create_kep"
    /\ IF DegenerateGeometry(my_data)
       THEN /\ Raise("DegenerateGeometry")
            /\ UNCHANGED << kep, trace >>
       ELSE /\ kep' = create_kep(my_data)
            /\ Called("create_kep", my_data, kep')
            /\ pc' = "kalman"
            /\ UNCHANGED exc
    /\ UNCHANGED << datafile, window, hmax, my_data, my_data_filt, kep_final, state,
                    keep_state, t_hold, ti, tf, x, h, tetol, i, rk, positions, dif,
                    r_abs, v_abs, stdout, figs, retval >>
    /\ UNCHANGED notMainf

\* line 41
CreateKep ==
    /\ pc = "create_kep"
    /\ IF DegenerateGeometry(my_data_filt)
       THEN /\ Raise("DegenerateGeometry")
            /\ UNCHANGED << kep, trace >>
       ELSE /\ kep' = create_kep(my_data_filt)
            /\ Called("create_kep", my_data_filt, kep')
            /\ pc' = "kalman"
            /\ UNCHANGED exc
    /\ UNCHANGED << datafile, window, hmax, my_data, my_data_filt, kep_final, state,
                    keep_state, t_hold, ti, tf, x, h, tetol, i, rk, positions, dif,
                    r_abs, v_abs, stdout, figs, retval >>
    /\ UNCHANGED notMainf

\* line 42
Kalman ==
    /\ pc = "kalman"
    /\ kep_final' = kalman(kep)
    /\ Called("kalman", kep, kep_final')
    /\ pc' = "transpose"
    /\ UNCHANGED << datafile, window, hmax, my_data, my_data_filt, kep, state,
                    keep_state, t_hold, ti, tf, x, h, tetol, i, rk, positions, dif,
                    r_abs, v_abs, stdout, figs, retval, exc >>
    /\ UNCHANGED notMainf

\* line 43
Transpose ==
    /\ pc = "transpose"
    /\ kep_final' = transpose(kep_final)
    /\ pc' = "kep_state"
    /\ UNCHANGED << datafile, window, hmax, my_data, my_data_filt, kep, state,
                    keep_state, t_hold, ti, tf, x, h, tetol, i, rk, positions, dif,
                    r_abs, v_abs, stdout, figs, retval, exc, trace >>
    /\ UNCHANGED notMainf

\* line 45
KepState ==
    /\ pc = "kep_state"
    /\ state' = Kep_state(kep_final)
    /\ pc' = "loop_init"
    /\ UNCHANGED << datafile, window, hmax, my_data, my_data_filt, kep, kep_final,
                    keep_state, t_hold, ti, tf, x, h, tetol, i, rk, positions, dif,
                    r_abs, v_abs, stdout, figs, retval, exc, trace >>
    /\ UNCHANGED notMainf

\* lines 49-55; tetol = 1e-04 is counted in units of 1e-04
LoopInit ==
    /\ pc = "loop_init"
    /\ keep_state' = [j \in 1 .. NumProp |-> ZeroColumn]
    /\ ti' = Ticks(0)
    /\ tf' = Ticks(EpochStep)
    /\ t_hold' = [j \in 1 .. NumProp |-> 0]
    /\ x' = state
    /\ h' = Ticks(1)
    /\ tetol' = 1
    /\ i' = 0
    /\ pc' = "loop"
    /\ UNCHANGED << datafile, window, hmax, my_data, my_data_filt, kep, kep_final,
                    state, rk, positions, dif, r_abs, v_abs, stdout, figs, retval,
                    exc, trace >>
    /\ UNCHANGED notMainf

\* line 58, the call: rkf78 starts from epoch ti with step h
RkfCall ==
    /\ pc = "loop"
    /\ i < NumProp
    /\ rk' = [t |-> ti, h |-> h, steps |-> 0]
    /\ pc' = "rkf"
    /\ UNCHANGED << datafile, window, hmax, my_data, my_data_filt, kep, kep_final,
                    state, keep_state, t_hold, ti, tf, x, h, tetol, i, positions,
                    dif, r_abs, v_abs, stdout, figs, retval, exc, trace >>
    /\ UNCHANGED notMainf

\* variant of PropagationFailed: the error is swallowed and the state reached
\* so far is stored as if it were the state at tf
PropagationFailedStored(out) ==
    /\ rk' = out.w
    /\ keep_state' = [keep_state EXCEPT ![i + 1] = ravel(rkf78_state(x, ti, out.w.t))]
    /\ t_hold' = [t_hold EXCEPT ![i + 1] = tf]
    /\ tf' = tf + Ticks(EpochStep)
    /\ i' = i + 1
    /\ pc' = "loop"
    /\ UNCHANGED exc

\* line 58, rkf78 raises: nothing is stored and the exception leaves mainf
PropagationFailed(out) ==
    /\ Raise(out.status)
    /\ rk' = out.w
    /\ UNCHANGED << keep_state, t_hold, tf, i >>

\* line 58, inside rkf78: one integration step short of the end epoch
RkfStep ==
    /\ pc = "rkf"
    /\ rk.t < tf
    /\ LET out == rkf78_step(rk, tf, hmax)
       IN  IF out.status = "running"
           THEN /\ rk' = out.w
                /\ UNCHANGED << pc, exc, keep_state, t_hold, tf, i >>
           ELSE PropagationFailed(out)
    /\ UNCHANGED << datafile, window, hmax, my_data, my_data_filt, kep, kep_final,
                    state, ti, x, h, tetol, positions, dif, r_abs, v_abs, stdout,
                    figs, retval, trace >>
    /\ UNCHANGED notMainf

\* variant of LoopStore: the next propagation continues from the state and
\* the epoch just reached instead of starting again from x at epoch ti
LoopStoreChained ==
    /\ pc = "rkf"
    /\ rk.t = tf
    /\ keep_state' = [keep_state EXCEPT ![i + 1] = ravel(rkf78_state(x, ti, rk.t))]
    /\ t_hold' = [t_hold EXCEPT ![i + 1] = tf]
    /\ x' = rkf78_state(x, ti, rk.t)
    /\ ti' = tf
    /\ tf' = tf + Ticks(EpochStep)
    /\ i' = i + 1
    /\ pc' = "loop"
    /\ UNCHANGED << datafile, window, hmax, my_data, my_data_filt, kep, kep_final,
                    state, h, tetol, rk, positions, dif, r_abs, v_abs,
                    stdout, figs, retval, exc, trace >>
    /\ UNCHANGED notMainf

\* lines 58-60: rkf78 returns the state at the end epoch, which is stored in
\* column i; the end epoch is recorded and moved on
LoopStore ==
    /\ pc = "rkf"
    /\ rk.t = tf
    /\ keep_state' = [keep_state EXCEPT ![i + 1] = ravel(rkf78_state(x, ti, rk.t))]
    /\ t_hold' = [t_hold EXCEPT ![i + 1] = tf]
    /\ tf' = tf + Ticks(EpochStep)
    /\ i' = i + 1
    /\ pc' = "loop"
    /\ UNCHANGED << datafile, window, hmax, my_data, my_data_filt, kep, kep_final,
                    state, ti, x, h, tetol, rk, positions, dif, r_abs, v_abs,
                    stdout, figs, retval, exc, trace >>
    /\ UNCHANGED notMainf

\* rows 0..2 of a column of keep_state
RowsOf(col, lo, hi) == [fn |-> "rows", arg |-> col, lo |-> lo, hi |-> hi]

\* line 63
LoopExit ==
    /\ pc = "loop"
    /\ i = NumProp
    /\ positions' = [j \in 1 .. NumProp |-> RowsOf(keep_state[j], 0, 3)]
    /\ pc' = "print_dif"
    /\ UNCHANGED << datafile, window, hmax, my_data, my_data_filt, kep, kep_final,
                    state, keep_state, t_hold, ti, tf, x, h, tetol, i, rk, dif,
                    r_abs, v_abs, stdout, figs, retval, exc, trace >>
    /\ UNCHANGED notMainf

\* a - b on the columns x, y, z of two tracks of one length, with a's times
Difference(a, b) ==
    [k \in 1 .. Len(a) |->
        << a[k][1], a[k][2] - b[k][2], a[k][3] - b[k][3], a[k][4] - b[k][4] >>]

\* lines 65-74: the difference table is computed from my_data and printed
PrintDif ==
    /\ pc = "print_dif"
    /\ dif' = Difference(my_data, my_data_filt)
    /\ stdout' = stdout \o << [what |-> "differences", table |-> dif'] >>
    /\ pc' = "print_kep"
    /\ UNCHANGED << datafile, window, hmax, my_data, my_data_filt, kep, kep_final,
                    state, keep_state, t_hold, ti, tf, x, h, tetol, i, rk, positions,
                    r_abs, v_abs, figs, retval, exc, trace >>
    /\ UNCHANGED notMainf

\* lines 76-89
PrintKep ==
    /\ pc = "print_kep"
    /\ stdout' = stdout \o << [what |-> "elements", table |-> kep_final] >>
    /\ pc' = "axes3d"
    /\ UNCHANGED << datafile, window, hmax, my_data, my_data_filt, kep, kep_final,
                    state, keep_state, t_hold, ti, tf, x, h, tetol, i, rk, positions,
                    dif, r_abs, v_abs, figs, retval, exc, trace >>
    /\ UNCHANGED notMainf

\* a call into matplotlib either succeeds or raises
RenderOutcomes == { "ok", "error" }

\* a call into matplotlib raises: the exception leaves mainf
RenderFailed ==
    /\ Raise("RenderError")
    /\ UNCHANGED << figs, retval >>

\* a rendering step of mainf at position here, drawing what, followed by next
Render(here, what, next) ==
    /\ pc = here
    /\ \E rendered \in RenderOutcomes :
          IF rendered = "ok"
          THEN /\ figs' = Append(figs, what)
               /\ pc' = next
               /\ UNCHANGED << exc, retval >>
          ELSE RenderFailed
    /\ UNCHANGED << datafile, window, hmax, my_data, my_data_filt, kep, kep_final,
                    state, keep_state, t_hold, ti, tf, x, h, tetol, i, rk, positions,
                    dif, r_abs, v_abs, stdout, trace >>
    /\ UNCHANGED notMainf

\* lines 94-96: the figure and its 3-D axes
Axes3D == Render("axes3d", "3d axes", "plot3d")

\* lines 98-105: initial data, filtered data, propagated orbit
Plot3D == Render("plot3d", "3d plots", "show3d")

\* line 106
Show3D == Render("show3d", "3d shown", "norms")

\* the norm of rows lo..hi-1 of a column of keep_state
NormOf(col, lo, hi) == [fn |-> "norm", arg |-> col, lo |-> lo, hi |-> hi]

\* lines 110-114
Norms ==
    /\ pc = "norms"
    /\ r_abs' = [j \in 1 .. NumProp |-> NormOf(keep_state[j], 0, 3)]
    /\ v_abs' = [j \in 1 .. NumProp |-> NormOf(keep_state[j], 3, 6)]
    /\ pc' = "plot2d"
    /\ UNCHANGED << datafile, window, hmax, my_data, my_data_filt, kep, kep_final,
                    state, keep_state, t_hold, ti, tf, x, h, tetol, i, rk, positions,
                    dif, stdout, figs, retval, exc, trace >>
    /\ UNCHANGED notMainf

\* lines 117-129: |r| and |v| against t_hold
Plot2D == Render("plot2d", "norm plots", "show2d")

\* line 131
Show2D == Render("show2d", "norms shown", "return")

\* line 133
Return ==
    /\ pc = "return"
    /\ retval' = kep_final
    /\ pc' = "returned"
    /\ UNCHANGED << datafile, window, hmax, my_data, my_data_filt, kep, kep_final,
                    state, keep_state, t_hold, ti, tf, x, h, tetol, i, rk, positions,
                    dif, r_abs, v_abs, stdout, figs, exc, trace >>
    /\ UNCHANGED notMainf

mainfNext ==
    \/ Load \/ Average \/ Golay \/ CreateKep \/ Kalman \/ Transpose \/ KepState
    \/ LoopInit \/ RkfCall \/ RkfStep \/ LoopStore \/ LoopExit
    \/ PrintDif \/ PrintKep \/ Axes3D \/ Plot3D \/ Show3D \/ Norms \/ Plot2D
    \/ Show2D \/ Return

\* ------------------------------------------------------------------------
\* Vectors and norms
\* ------------------------------------------------------------------------

\* a state vector: position x, y, z and velocity x, y, z
Dim == 6

VecAdd(a, b) == [c \in 1 .. Dim |-> a[c] + b[c]]

VecSub(a, b) == [c \in 1 .. Dim |-> a[c] - b[c]]

\* squares are kept as two limbs << high, low >> in base Limb, so that the
\* square of 100000 and of any error up to 1000 km stays within 32 bits
Limb == 1000 * 1000

SqLimbs(c) ==
    LET a == Abs(c) \div 1000
        b == Abs(c) % 1000
        m == 2000 * a * b + b * b
    IN  << a * a + m \div Limb, m % Limb >>

RECURSIVE SumLimb(_, _, _)
\* limb l of q[k] + ... + q[Dim]
SumLimb(q, l, k) == IF k > Dim THEN 0 ELSE q[k][l] + SumLimb(q, l, k + 1)

\* the squared Euclidean norm of a vector
SumSq(v) ==
    LET q == [c \in 1 .. Dim |-> SqLimbs(v[c])]
        hi == SumLimb(q, 1, 1)
        lo == SumLimb(q, 2, 1)
    IN  << hi + lo \div Limb, lo % Limb >>

LimbLess(p, q) == p[1] < q[1] \/ (p[1] = q[1] /\ p[2] < q[2])

\* np.linalg.norm(v) < bound, decided on the squares
NormLess(v, bound) == LimbLess(SumSq(v), SqLimbs(bound))

\* ------------------------------------------------------------------------
\* The Batch Estimator of the design document
\* ------------------------------------------------------------------------

\* largest number of candidates of an ensemble
MaxCand == 3

\* cap on the least-squares iterations of one candidate
IterCap == 2

\* the true initial state (metres, metres per second)
Truth == << 7000000, 0, 0, 0, 7500, 0 >>

\* initial errors of the candidates: norms 4000, 40000, 64000 and 200000 m
Offsets ==
    { << 2400, 3200, 0, 0, 0, 0 >>, << 0, 0, 40000, 0, 0, 0 >>,
      << 38400, 51200, 0, 0, 0, 0 >>, << 200000, 0, 0, 0, 0, 0 >> }

\* the capture basin: initial position error below 50 km
BasinRadius == 50000

\* the iteration stops once the norm of the correction is below this
ConvTol == 1500

\* if x_berr_norm[i] < 100000
AcceptThreshold == 100000

\* the least-squares correction of estimate e: inside the capture basin it
\* halves the error, outside the error grows by a quarter
Correction(e) ==
    LET err == VecSub(e, Truth)
    IN  IF NormLess(err, BasinRadius)
        THEN [c \in 1 .. Dim |-> (err[c] \div 2) - err[c]]
        ELSE [c \in 1 .. Dim |-> err[c] \div 4]

\* a candidate's outcome from its final error
Classify(err) == IF NormLess(err, AcceptThreshold) THEN "converged" ELSE "diverged"

NoVec == << >>

Cands == 1 .. Len(x_0r)

plotBatchUnset ==
    /\ x_berr_norm = << >> /\ norm_mask = << >> /\ bi = 0 /\ artists = << >>
    /\ bfig = "none" /\ bexc = "none"

\* the estimator is handed an ensemble of 1 .. MaxCand perturbed initial states
batchInit ==
    /\ bpc = "estimate"
    /\ \E n \in 1 .. MaxCand :
          x_0r \in [1 .. n -> { VecAdd(Truth, o) : o \in Offsets }]
    /\ work = [c \in Cands |-> [x |-> x_0r[c], iter |-> 0, phase |-> "iterating"]]
    /\ x_br = [c \in Cands |-> NoVec]
    /\ x_berr = [c \in Cands |-> NoVec]
    /\ outcome = [c \in Cands |-> "pending"]
    /\ plotBatchUnset

\* nothing of the batch estimator is in use
batchIdle ==
    /\ bpc = "idle" /\ x_0r = << >> /\ work = << >> /\ x_br = << >>
    /\ x_berr = << >> /\ outcome = << >> /\ plotBatchUnset

\* one least-squares iteration of working storage w: the correction is
\* applied; the task stops once the correction is small or the cap is hit
IterateOnce(w) ==
    LET dx == Correction(w.x)
    IN  [x |-> VecAdd(w.x, dx),
         iter |-> w.iter + 1,
         phase |-> IF NormLess(dx, ConvTol) THEN "settled"
                   ELSE IF w.iter + 1 >= IterCap THEN "capped"
                   ELSE "iterating"]

\* the worker task of candidate c runs one iteration in its own storage
BatchIterate(c) ==
    /\ bpc = "estimate"
    /\ work[c].phase = "iterating"
    /\ work' = [work EXCEPT ![c] = IterateOnce(work[c])]
    /\ UNCHANGED << bpc, x_0r, x_br, x_berr, outcome, x_berr_norm, norm_mask, bi,
                    artists, bfig, bexc >>
    /\ UNCHANGED notBatch

\* variant of ResultSlot: results are collected in order of completion
ResultSlotByCompletion(c) == Cardinality({ d \in Cands : work[d].phase = "stored" }) + 1

\* the slot of the ensemble that receives the result of candidate c
ResultSlot(c) == c

\* the worker task of candidate c stores its result: converged state, error
\* against the truth and outcome, whether converged or diverged
BatchStore(c) ==
    /\ bpc = "estimate"
    /\ work[c].phase \in { "settled", "capped" }
    /\ LET slot == ResultSlot(c)
           err == VecSub(work[c].x, Truth)
       IN  /\ x_br' = [x_br EXCEPT ![slot] = work[c].x]
           /\ x_berr' = [x_berr EXCEPT ![slot] = err]
           /\ outcome' = [outcome EXCEPT ![slot] = Classify(err)]
    /\ work' = [work EXCEPT ![c].phase = "stored"]
    /\ UNCHANGED << bpc, x_0r, x_berr_norm, norm_mask, bi, artists, bfig, bexc >>
    /\ UNCHANGED notBatch

\* every task has stored its result: the ensemble is handed to the plot
BatchCollected ==
    /\ bpc = "estimate"
    /\ \A c \in Cands : work[c].phase = "stored"
    /\ bpc' = "plot_start"
    /\ UNCHANGED << x_0r, work, x_br, x_berr, outcome, x_berr_norm, norm_mask, bi,
                    artists, bfig, bexc >>
    /\ UNCHANGED notBatch

\* ------------------------------------------------------------------------
\* utils_vis.plot_batch_results
\* ------------------------------------------------------------------------

\* norm_mask = x_berr_norm < 5000
MaskThreshold == 5000

\* a scatter call: what is drawn, for which candidate, at which position
Scatter(kind, c, v) == [kind |-> kind, cand |-> c, at |-> << v[1], v[2], v[3] >>]

\* lines 190-205: figure, ground truth, the error norms (kept squared), the
\* mask, the ground-truth trajectory and its legend proxy
PlotBatchStart ==
    /\ bpc = "plot_start"
    /\ x_berr_norm' = [c \in Cands |-> SumSq(x_berr[c])]
    /\ norm_mask' = [c \in Cands |-> LimbLess(x_berr_norm'[c], SqLimbs(MaskThreshold))]
    /\ artists' = << Scatter("truth", 0, Truth), Scatter("trajectory", 0, Truth),
                     Scatter("trajectory proxy", 0, Truth) >>
    /\ bi' = 0
    /\ bpc' = "plot_loop"
    /\ UNCHANGED << x_0r, work, x_br, x_berr, outcome, bfig, bexc >>
    /\ UNCHANGED notBatch

\* variant of UnderAcceptance: the candidate is drawn when its error norm is
\* below the threshold of norm_mask
UnderMask(sq) == LimbLess(sq, SqLimbs(MaskThreshold))

\* line 209: x_berr_norm[i] < 100000
UnderAcceptance(sq) == LimbLess(sq, SqLimbs(AcceptThreshold))

\* lines 208-211, one pass of the loop: candidate bi is drawn, before and
\* after the batch, when its error norm is below the threshold, and skipped
\* otherwise; the loop goes on with the next candidate either way
PlotBatchCandidate ==
    /\ bpc = "plot_loop"
    /\ bi < Len(x_0r)
    /\ artists' = IF UnderAcceptance(x_berr_norm[bi + 1])
                  THEN artists \o << Scatter("pre-batch", bi + 1, x_0r[bi + 1]),
                                     Scatter("post-batch", bi + 1, x_br[bi + 1]) >>
                  ELSE artists
    /\ bi' = bi + 1
    /\ UNCHANGED << bpc, x_0r, work, x_br, x_berr, outcome, x_berr_norm, norm_mask,
                    bfig, bexc >>
    /\ UNCHANGED notBatch

\* lines 213-224: labels, the legend proxies x_0r[:, 0] and x_br[:, 1], the
\* legend; x_br[:, 1] is out of bounds for an ensemble of one candidate
PlotBatchLegend ==
    /\ bpc = "plot_loop"
    /\ bi = Len(x_0r)
    /\ IF Len(x_br) < 2
       THEN /\ artists' = Append(artists, Scatter("pre-batch proxy", 1, x_0r[1]))
            /\ bexc' = "IndexError"
            /\ bpc' = "raised"
            /\ UNCHANGED bfig
       ELSE /\ artists' = artists \o << Scatter("pre-batch proxy", 1, x_0r[1]),
                                        Scatter("post-batch proxy", 2, x_br[2]) >>
            /\ bfig' = "fig"
            /\ bpc' = "returned"
            /\ UNCHANGED bexc
    /\ UNCHANGED << x_0r, work, x_br, x_berr, outcome, x_berr_norm, norm_mask, bi >>
    /\ UNCHANGED notBatch

batchNext ==
    \/ \E c \in Cands : BatchIterate(c)
    \/ \E c \in Cands : BatchStore(c)
    \/ BatchCollected
    \/ PlotBatchStart \/ PlotBatchCandidate \/ PlotBatchLegend

\* ------------------------------------------------------------------------
\* utils_vis.plot_tdoa, plot_example_3d, plot_range_range_rate
\* ------------------------------------------------------------------------

\* largest number of stations (observers) of an input array
MaxObs == 5

\* largest number of time samples of an input array
MaxSamples == 2

\* fig.add_subplot(nrows, ncols, index) raises ValueError unless
\* 1 <= index <= nrows * ncols
ValidSubplot(nrows, ncols, index) == 1 <= index /\ index <= nrows * ncols

\* the rows and columns of the grid of plot_tdoa: add_subplot(2, 2, ...)
TdoaRows == 2

TdoaCols == 2

\* np.expand_dims(a, axis): axis is a required argument; given, a dimension
\* of size 1 is inserted at that place
expand_dims(shape, axis) ==
    IF axis = "missing"
    THEN [raised |-> TRUE, shape |-> shape]
    ELSE [raised |-> FALSE,
          shape |-> [k \in 1 .. (Len(shape) + 1) |->
                        IF k <= axis THEN shape[k]
                        ELSE IF k = axis + 1 THEN 1
                        ELSE shape[k - 1]]]

visLocalsUnset ==
    /\ vshape = << >> /\ vi = 0 /\ vpanels = << >> /\ vdrawn = << >>
    /\ vfig = "none" /\ vexc = "none"

visIdle ==
    /\ vfn = "idle" /\ vpc = "idle" /\ varg = << >> /\ vtitle = FALSE
    /\ visLocalsUnset

\* observer arrays: (6, n) for a single observer, (6, n, k) for k observers
ObserverShapes ==
    { << Dim, n >> : n \in 1 .. MaxSamples }
        \cup { << Dim, n, k >> : n \in 1 .. MaxSamples, k \in 1 .. MaxObs }

\* tdoa arrays: (n_obs, n)
TdoaShapes == { << k, n >> : k \in 1 .. MaxObs, n \in 1 .. MaxSamples }

\* one of the three plotting helpers is called
visInit ==
    /\ vfn \in { "plot_tdoa", "plot_example_3d", "plot_range_range_rate" }
    /\ vpc = "start"
    /\ varg \in IF vfn = "plot_tdoa" THEN TdoaShapes ELSE ObserverShapes
    /\ vtitle \in BOOLEAN
    /\ visLocalsUnset

Panel(nrows, ncols, index, text) ==
    [grid |-> << nrows, ncols >>, index |-> index, title |-> text]

\* lines 236-252: the figure and the panel of the reference station
TdoaStart ==
    /\ vfn = "plot_tdoa" /\ vpc = "start"
    /\ vshape' = varg
    /\ vpanels' = << Panel(TdoaRows, TdoaCols, 1, << "Station", 0, "ToF" >>) >>
    /\ vi' = 0
    /\ vpc' = "loop"
    /\ UNCHANGED << vfn, varg, vtitle, vdrawn, vfig, vexc >>
    /\ UNCHANGED notVis

\* lines 255-262, one pass of the loop over range(tdoa.shape[0] - 1): the
\* panel of station vi + 1 is added at index vi + 2 of the grid
TdoaPanel ==
    /\ vfn = "plot_tdoa" /\ vpc = "loop"
    /\ vi < vshape[1] - 1
    /\ IF ValidSubplot(TdoaRows, TdoaCols, vi + 2)
       THEN /\ vpanels' = Append(vpanels,
                              Panel(TdoaRows, TdoaCols, vi + 2, << "Station", vi + 1, "-0 TDoA" >>))
            /\ vi' = vi + 1
            /\ UNCHANGED << vpc, vexc >>
       ELSE /\ vexc' = "ValueError"
            /\ vpc' = "raised"
            /\ UNCHANGED << vpanels, vi >>
    /\ UNCHANGED << vfn, varg, vtitle, vshape, vdrawn, vfig >>
    /\ UNCHANGED notVis

\* lines 264-266
TdoaReturn ==
    /\ vfn = "plot_tdoa" /\ vpc = "loop"
    /\ vi >= vshape[1] - 1
    /\ vfig' = "fig"
    /\ vpc' = "returned"
    /\ UNCHANGED << vfn, varg, vtitle, vshape, vi, vpanels, vdrawn, vexc >>
    /\ UNCHANGED notVis

\* plot_example_3d lines 66-70, plot_range_range_rate line 112: entry
ObserversStart ==
    /\ vfn \in { "plot_example_3d", "plot_range_range_rate" } /\ vpc = "start"
    /\ vshape' = varg
    /\ vpc' = "dimension_fix"
    /\ UNCHANGED << vfn, varg, vtitle, vi, vpanels, vdrawn, vfig, vexc >>
    /\ UNCHANGED notVis

\* lines 72-74 and 113-114: a 2-dimensional observer array is handed to
\* np.expand_dims without an axis
DimensionFix ==
    /\ vfn \in { "plot_example_3d", "plot_range_range_rate" } /\ vpc = "dimension_fix"
    /\ IF Len(vshape) = 2
       THEN LET fixed == expand_dims(vshape, "missing")
            IN  IF fixed.raised
                THEN /\ vexc' = "TypeError"
                     /\ vpc' = "raised"
                     /\ UNCHANGED vshape
                ELSE /\ vshape' = fixed.shape
                     /\ vpc' = "loop"
                     /\ UNCHANGED vexc
       ELSE /\ vpc' = "loop"
            /\ UNCHANGED << vshape, vexc >>
    /\ vi' = 0
    /\ UNCHANGED << vfn, varg, vtitle, vpanels, vdrawn, vfig >>
    /\ UNCHANGED notVis

\* plot_example_3d lines 81-86, one pass of the loop over the observers
Example3dObserver ==
    /\ vfn = "plot_example_3d" /\ vpc = "loop"
    /\ vi < vshape[3]
    /\ vdrawn' = Append(vdrawn, << "Observer", vi >>)
    /\ vi' = vi + 1
    /\ UNCHANGED << vfn, vpc, varg, vtitle, vshape, vpanels, vfig, vexc >>
    /\ UNCHANGED notVis

\* plot_example_3d lines 88-102: the satellite, the title, the legend
Example3dReturn ==
    /\ vfn = "plot_example_3d" /\ vpc = "loop"
    /\ vi >= vshape[3]
    /\ vdrawn' = Append(vdrawn, << "Satellite", 0 >>)
    /\ vpanels' = << Panel(1, 1, 1, IF vtitle THEN << "Scenario example" >> ELSE << >>) >>
    /\ vfig' = "fig"
    /\ vpc' = "returned"
    /\ UNCHANGED << vfn, varg, vtitle, vshape, vi, vexc >>
    /\ UNCHANGED notVis

\* plot_range_range_rate lines 120-135, one pass of the loop: range and
\* range rate of observer vi in the two panels of row vi of an n_obs x 2 grid
RangeRateObserver ==
    /\ vfn = "plot_range_range_rate" /\ vpc = "loop"
    /\ vi < vshape[3]
    /\ vpanels' = vpanels \o
          << Panel(vshape[3], 2, vi * 2 + 1, << "Station 1 - Range" >>),
             Panel(vshape[3], 2, vi * 2 + 2, << "Station 1 - Range Rate" >>) >>
    /\ vdrawn' = Append(vdrawn, << "Observer", vi >>)
    /\ vi' = vi + 1
    /\ UNCHANGED << vfn, vpc, varg, vtitle, vshape, vfig, vexc >>
    /\ UNCHANGED notVis

\* plot_range_range_rate lines 137-139
RangeRateReturn ==
    /\ vfn = "plot_range_range_rate" /\ vpc = "loop"
    /\ vi >= vshape[3]
    /\ vfig' = "fig"
    /\ vpc' = "returned"
    /\ UNCHANGED << vfn, varg, vtitle, vshape, vi, vpanels, vdrawn, vexc >>
    /\ UNCHANGED notVis

visNext ==
    \/ TdoaStart \/ TdoaPanel \/ TdoaReturn
    \/ ObserversStart \/ DimensionFix
    \/ Example3dObserver \/ Example3dReturn
    \/ RangeRateObserver \/ RangeRateReturn

\* ------------------------------------------------------------------------
\* Specifications
\* ------------------------------------------------------------------------

vars == << mainfVars, batchVars, visVars >>

\* mainf is not running
mainfIdle ==
    /\ pc = "idle" /\ datafile = 0 /\ window = 0 /\ hmax = 0
    /\ mainfLocalsUnset

\* a call of mainf
Init == mainfInit /\ batchIdle /\ visIdle

Next == mainfNext

Spec == Init /\ [][Next]_vars

\* a run of the batch estimator on an ensemble, then plot_batch_results
InitBatch == batchInit /\ mainfIdle /\ visIdle

NextBatch == batchNext

SpecBatch == InitBatch /\ [][NextBatch]_vars

\* a call of one of the plotting helpers
InitVis == visInit /\ mainfIdle /\ batchIdle

NextVis == visNext

SpecVis == InitVis /\ [][NextVis]_vars

\* ------------------------------------------------------------------------
\* Properties of mainf
\* ------------------------------------------------------------------------

\* C1 (as claimed): once the Kalman stage has produced the final elements, a
\* failure of a later rendering step does not prevent mainf from returning
\* kep_final: a run in which a rendering step failed still ends returned,
\* with kep_final as its value.
C1_RenderFailureStillReturns ==
    exc = "RenderError" => (pc = "returned" /\ retval = kep_final)

StageOrder == << "load_data", "generate_filtered_data", "golay", "create_kep", "kalman" >>

\* the stages called so far are a prefix of the fixed order, the first one
\* reads the file and each later one reads the result of the one before it
StagesChained ==
    /\ Len(trace) <= Len(StageOrder)
    /\ \A k \in 1 .. Len(trace) : trace[k].stage = StageOrder[k]
    /\ Len(trace) >= 1 => trace[1].input = datafile
    /\ \A k \in 2 .. Len(trace) : trace[k].input = trace[k - 1].output

PropagationErrors == { "IntegrationDiverged", "StepBudgetExceeded" }

\* C4: a propagation ends with a state at the end epoch or with one of the
\* two propagation errors; a column of keep_state is only ever filled with a
\* state whose epoch is the end epoch asked for, and a propagation that
\* failed short of the end epoch stores nothing and ends mainf.
C4_NoTruncatedPropagation ==
    /\ pc = "rkf" => rk.t <= tf
    /\ \A j \in 1 .. Len(keep_state) :
          keep_state[j] # ZeroColumn =>
             /\ keep_state[j].fn = "rkf78"
             /\ keep_state[j].epoch = t_hold[j]
             /\ t_hold[j] = Ticks(EpochStep * j)
    /\ exc \in PropagationErrors =>
          /\ pc = "raised"
          /\ rk.t < tf
          /\ keep_state[i + 1] = ZeroColumn
          /\ t_hold[i + 1] = 0
          /\ exc = "IntegrationDiverged" => rk.h < 1
          /\ exc = "StepBudgetExceeded" => rk.steps >= StepCap
    /\ (pc \in { "loop", "rkf" } /\ Len(keep_state) = NumProp) =>
          \A j \in 1 .. i : keep_state[j] # ZeroColumn

\* C4 witness: the step budget ran out in a later propagation, after earlier
\* ones had reached their end epochs.
C4_Witness ==
    /\ pc = "raised" /\ exc = "StepBudgetExceeded" /\ i >= 1 /\ rk.t > 0 /\ rk.t < tf

BeforeSmoothing == { "load", "average", "golay" }

C7_DifferenceFromLoadedData ==
    Len(stdout) >= 1 =>
       /\ stdout[1].table = dif
       /\ Len(dif) = TrackLen(datafile)
       /\ \A k \in 1 .. Len(dif) :
             /\ dif[k][1] = load_data(datafile)[k][1]
             /\ \A c \in 2 .. 4 :
                   dif[k][c] = load_data(datafile)[k][c] - my_data_filt[k][c]

Drawn(c) == \E k \in 1 .. Len(artists) : artists[k] = Scatter("pre-batch", c, x_0r[c])

\* C3: once the ensemble has been processed every candidate has exactly one
\* outcome, converged exactly when its final error norm is strictly below
\* 100000 m and diverged otherwise; a diverged candidate keeps its initial
\* guess, final state and error at its index, is told apart from the
\* converged ones (it alone is left out by the plotting loop), and stops
\* neither the other tasks nor the rest of the loop.
C3_EveryCandidateClassified ==
    /\ bpc = "estimate" =>
          \A c \in Cands :
             IF work[c].phase = "stored"
             THEN outcome[c] \in { "converged", "diverged" }
             ELSE outcome[c] = "pending"
    /\ bpc \in { "plot_start", "plot_loop", "returned", "raised" } =>
          \A c \in Cands :
             /\ outcome[c] \in { "converged", "diverged" }
             /\ outcome[c] = "converged" <=> NormLess(x_berr[c], 100000)
             /\ VecSub(x_0r[c], Truth) \in Offsets
             /\ x_br[c] # NoVec
             /\ x_berr[c] = VecSub(x_br[c], Truth)
             /\ (bpc # "plot_start" /\ c <= bi) => (Drawn(c) <=> outcome[c] = "converged")
             /\ (bpc # "plot_start" /\ c > bi) => ~Drawn(c)
    /\ bpc \in { "returned", "raised" } => bi = Len(x_0r)

\* C3 witness: a candidate whose final error norm is exactly 100000 m was
\* classified diverged and skipped, and a later candidate was drawn.
C3_Witness ==
    /\ bpc = "returned"
    /\ \E c, d \in Cands :
          /\ c < d
          /\ x_berr[c] = << 60000, 80000, 0, 0, 0, 0 >>
          /\ outcome[c] = "diverged" /\ ~Drawn(c)
          /\ outcome[d] = "converged" /\ Drawn(d)

RECURSIVE IterateTimes(_, _)
\* k iterations on working storage w
IterateTimes(w, k) == IF k = 0 THEN w ELSE IterateTimes(IterateOnce(w), k - 1)

RECURSIVE RunAlone(_)
\* the task of one candidate run on its own to the end
RunAlone(w) == IF w.phase = "iterating" THEN RunAlone(IterateOnce(w)) ELSE w

\* the working storage a task starts from, for initial guess x0
FreshTask(x0) == [x |-> x0, iter |-> 0, phase |-> "iterating"]

\* sequential processing of one candidate on its own, for every initial
\* error of the ensembles: the storage after k iterations, and at the end
AloneAfter ==
    [o \in Offsets |-> [k \in 0 .. IterCap |-> IterateTimes(FreshTask(VecAdd(Truth, o)), k)]]

AloneFinal == [o \in Offsets |-> RunAlone(FreshTask(VecAdd(Truth, o)))]

\* C6: under every interleaving of the worker tasks, the working storage of
\* candidate c is what its own iterations alone make of its initial guess,
\* and the result stored at index c is the result of processing candidate c
\* on its own; before the task of c stores, slot c is untouched.
C6_OrderIndependent ==
    bpc # "idle" =>
       \A c \in Cands :
          LET o == VecSub(x_0r[c], Truth)
          IN  IF work[c].phase = "stored"
              THEN /\ work[c].x = AloneFinal[o].x
                   /\ work[c].iter = AloneFinal[o].iter
                   /\ x_br[c] = AloneFinal[o].x
                   /\ x_berr[c] = VecSub(AloneFinal[o].x, Truth)
                   /\ outcome[c] = Classify(x_berr[c])
              ELSE /\ work[c] = AloneAfter[o][work[c].iter]
                   /\ x_br[c] = NoVec /\ x_berr[c] = NoVec /\ outcome[c] = "pending"

\* C6 witness: the task of a later candidate has stored its result while the
\* task of an earlier candidate is still iterating.
C6_Witness ==
    /\ bpc = "estimate"
    /\ \E c, d \in Cands :
          /\ c < d
          /\ work[d].phase = "stored" /\ x_br[d] # NoVec
          /\ work[c].phase = "iterating" /\ work[c].iter >= 1

\* ------------------------------------------------------------------------
\* Properties of the plotting helpers
\* ------------------------------------------------------------------------

\* C9 (as claimed): for every number n_obs >= 4 of stations plot_tdoa
\* completes with exactly n_obs panels, the time of flight of station 0 and
\* one TDoA panel for each station 1 .. n_obs - 1, each at a valid position
\* of the grid, no two at the same position.
C9_TdoaPanelPerStation ==
    (vfn = "plot_tdoa" /\ varg[1] >= 4 /\ vpc \in { "returned", "raised" }) =>
       /\ vpc = "returned" /\ vfig = "fig"
       /\ Len(vpanels) = varg[1]
       /\ vpanels[1].title = << "Station", 0, "ToF" >>
       /\ \A k \in 1 .. (varg[1] - 1) : vpanels[k + 1].title = << "Station", k, "-0 TDoA" >>
       /\ \A k \in 1 .. Len(vpanels) :
             1 <= vpanels[k].index /\ vpanels[k].index <= vpanels[k].grid[1] * vpanels[k].grid[2]
       /\ \A j, k \in 1 .. Len(vpanels) : j # k => vpanels[j].index # vpanels[k].index

\* C10 (as claimed): given a 2-dimensional observer array, plot_example_3d
\* and plot_range_range_rate turn it into a 3-dimensional array with one
\* observer along the third axis, go on and return a figure with that one
\* observer; they do not end in an error.
C10_DimensionFixSingleObserver ==
    (vfn \in { "plot_example_3d", "plot_range_range_rate" } /\ Len(varg) = 2) =>
       /\ vpc # "raised" /\ vexc = "none"
       /\ vpc \in { "loop", "returned" } => vshape = << varg[1], varg[2], 1 >>
       /\ vpc = "returned" =>
             /\ vfig = "fig"
             /\ Cardinality({ k \in 1 .. Len(vdrawn) : vdrawn[k][1] = "Observer" }) = 1

=============================================================================
